---- MODULE Spec2Model ----
(***************************************************************************)
(* A model of clean.py, the tabular csv cleanup script: nine transforms    *)
(* that each read one csv file (clean_pug: two), build a result table and  *)
(* write it with to_csv.                                                   *)
(*                                                                         *)
(* Tables are sequences of records.  Numbers are fixed point integers, the *)
(* unit of every column is stated where the column is built.  A float      *)
(* that may be NaN, None or infinite is a record [k, v]:                   *)
(*   k = "num" (value v), "nan", "none", "inf" (v = 1 or -1), and in a     *)
(*   written csv file "empty" (the empty cell to_csv writes for NaN/None). *)
(* np.round is modelled exactly (round half to even on the exact quotient).*)
(* sort_values is modelled as a stable sort.                               *)
(***************************************************************************)
EXTENDS Integers, Sequences, FiniteSets, TLC

VARIABLES fs,     \* the files that exist: path -> [header, rows]
          dirs,   \* the directories that exist
          call,   \* the last invocation: [fn, input, input2, arg, status, written]
          run,    \* how it was started: [main, argv], main = TRUE for the
                  \* script (python clean.py argv...), FALSE for a call of
                  \* the function itself
          completed   \* the invocations that have returned: [fn, arg]

vars == <<fs, dirs, call, run, completed>>

(***************************************************************************)
(* Bounds of the model.                                                    *)
(***************************************************************************)
MaxRows == 3       \* rows of a population-growth / uba input table
MaxPasRows == 2    \* rows of a demographics input table
MaxSmallRows == 2
MaxMainRows == 1       \* rows of the files that are only run through the script  \* rows of the other input tables

(***************************************************************************)
(* Floats.                                                                 *)
(***************************************************************************)
Num(v) == [k |-> "num", v |-> v]
NaN == [k |-> "nan", v |-> 0]
None == [k |-> "none", v |-> 0]
Inf(s) == [k |-> "inf", v |-> s]
Empty == [k |-> "empty", v |-> 0]

Abs(n) == IF n < 0 THEN -n ELSE n
Sign(n) == IF n < 0 THEN -1 ELSE IF n = 0 THEN 0 ELSE 1

\* q, r of n*10^k / d continued from quotient q and remainder r (long division,
\* so that no intermediate product leaves the integer range)
RECURSIVE LongDiv(_, _, _, _)
LongDiv(q, r, d, k) ==
    IF k = 0 THEN <<q, r>>
    ELSE LongDiv(q * 10 + ((r * 10) \div d), (r * 10) % d, d, k - 1)

\* n*10^k / d for n >= 0, d > 0, rounded half to even (np.round / rint)
RoundQuot(n, d, k) ==
    LET qr == LongDiv(n \div d, n % d, d, k)
        q == qr[1]
        r == qr[2]
    IN IF 2 * r > d \/ (2 * r = d /\ q % 2 = 1) THEN q + 1 ELSE q

\* n*10^k / d for integers n, d # 0, rounded half to even
RoundDiv(n, d, k) == Sign(n) * Sign(d) * RoundQuot(Abs(n), Abs(d), k)

\* float division a / b of two floats, scaled by 10^k and rounded to an integer
\* of the result's unit: IEEE rules for NaN, division by zero and infinities
FDivRound(a, b, k) ==
    IF a.k \notin {"num", "inf"} \/ b.k \notin {"num", "inf"} THEN NaN
    ELSE IF a.k = "inf" /\ b.k = "inf" THEN NaN
    ELSE IF a.k = "inf" THEN Inf(a.v * (IF b.v < 0 THEN -1 ELSE 1))
    ELSE IF b.k = "inf" THEN Num(0)
    ELSE IF b.v = 0 THEN (IF a.v = 0 THEN NaN ELSE Inf(Sign(a.v)))
    ELSE Num(RoundDiv(a.v, b.v, k))

\* Series.round(d) of a value held with one more decimal than d
RoundLastDigit(x) == IF x.k = "num" THEN Num(RoundDiv(x.v, 10, 0)) ELSE x

(***************************************************************************)
(* Sorting: DataFrame.sort_values as a stable sort.  le[i, j] says that    *)
(* row i sorts no later than row j; rows that sort alike keep their order. *)
(***************************************************************************)
sort_values(s, le) ==
    LET n == Len(s)
        \* the rows that come before row i in the result
        before(i) == {j \in 1..n : IF le[i, j] THEN le[j, i] /\ j < i ELSE TRUE}
        at == [i \in 1..n |-> Cardinality(before(i)) + 1]
    IN [p \in 1..n |-> s[CHOOSE i \in 1..n : at[i] = p]]

(***************************************************************************)
(* csv files.                                                              *)
(***************************************************************************)
Path(d, n) == [dir |-> d, name |-> n]
NoArg == Path("", "")                 \* output_file=None
Cwd == "."
OutDir == "out"                       \* an existing directory for explicit outputs
Processed == "data/processed"

File(h, r) == [header |-> h, rows |-> r]
Exists(path) == path \in DOMAIN fs
\* the file system f with the file written at path
Write(f, path, file) ==
    [q \in DOMAIN f \cup {path} |-> IF q = path THEN file ELSE f[q]]

\* to_csv writes NaN and None as an empty cell
to_csv_cell(x) == IF x.k \in {"nan", "none"} THEN Empty ELSE x
\* read_csv reads an empty cell as NaN
read_csv_cell(c) == IF c.k = "empty" THEN NaN ELSE c

\* pd.read_csv(path): the rows of the file, empty cells read as NaN
read_csv(path) ==
    LET rows == fs[path].rows
    IN [i \in 1..Len(rows) |->
          [c \in DOMAIN rows[i] |->
              IF c \in {"populationGrowthPercentage", "ubaGrowthPercentage"}
              THEN read_csv_cell(rows[i][c]) ELSE rows[i][c]]]

Call(fn, input, input2, arg, status, written) ==
    [fn |-> fn, input |-> input, input2 |-> input2, arg |-> arg,
     status |-> status, written |-> written]

\* "create output filename if not provided" and "save the cleaned data":
\* os.makedirs('data/processed', exist_ok=True) and the default name when
\* output_file is None, then result_df.to_csv(output_file, index=False), which
\* fails when the directory of the path does not exist; status is how the
\* function ends after the write (the summary it prints may raise)
save(status, fn, input_file, input2, output_file, default_name, header, rows) ==
    LET path == IF output_file = NoArg THEN Path(Processed, default_name)
                ELSE output_file
        made == IF output_file = NoArg THEN dirs \cup {Processed} ELSE dirs
    IN /\ dirs' = made
       /\ IF path.dir \in made
          THEN /\ fs' = Write(fs, path, File(header, rows))
               /\ call' = Call(fn, input_file, input2, output_file, status, {path})
          ELSE /\ fs' = fs
               /\ call' = Call(fn, input_file, input2, output_file, "OSError", {})

(***************************************************************************)
(* clean_pg: population growth.  Year and population are integers;         *)
(* populationGrowthPercentage is a float in thousandths of a percent.      *)
(***************************************************************************)
YearLe(a, b) == a.Year <= b.Year

\* Series.pct_change() * 100, rounded to 3 decimals: the values xs are floats
\* of one unit; element 1 has no predecessor and is NaN
pct_change(xs) ==
    [i \in 1..Len(xs) |->
        IF i = 1 THEN NaN
        ELSE IF xs[i].k # "num" \/ xs[i - 1].k # "num" THEN NaN
        ELSE FDivRound(Num(xs[i].v - xs[i - 1].v), xs[i - 1], 5)]

PgHeader == <<"yearName", "population", "populationGrowthPercentage">>

pg_result_unsorted(rows) ==
    LET df == rows
        growth == pct_change([i \in 1..Len(df) |-> Num(df[i].Population)])
    IN [i \in 1..Len(df) |->
          [yearName |-> df[i].Year,
           population |-> df[i].Population,
           populationGrowthPercentage |-> to_csv_cell(growth[i])]]

\* the result_df of clean_pg, as written: the rows of the input sorted by Year
pg_result(rows) ==
    LET df == sort_values(rows,
                  [i \in 1..Len(rows), j \in 1..Len(rows) |->
                      YearLe(rows[i], rows[j])])
        growth == pct_change([i \in 1..Len(df) |-> Num(df[i].Population)])
    IN [i \in 1..Len(df) |->
          [yearName |-> df[i].Year,
           population |-> df[i].Population,
           populationGrowthPercentage |-> to_csv_cell(growth[i])]]

clean_pg(input_file, output_file) ==
    /\ Exists(input_file)
    /\ save("ok", "clean_pg", input_file, NoArg, output_file, "pg.csv", PgHeader,
            pg_result(fs[input_file].rows))

(***************************************************************************)
(* clean_uba: urban built-up area.  'cumulative sq km' is in thousandths,  *)
(* uba in hundredths, ubaGrowthPercentage in thousandths of a percent.     *)
(***************************************************************************)
UbaYearLe(a, b) == a.year <= b.year

UbaHeader == <<"year", "yearName", "uba", "ubaGrowthPercentage">>

uba_result(rows) ==
    LET df == sort_values(rows,
                  [i \in 1..Len(rows), j \in 1..Len(rows) |->
                      UbaYearLe(rows[i], rows[j])])
        uba == [i \in 1..Len(df) |-> RoundLastDigit(Num(df[i].sqkm))]
        growth == pct_change(uba)
    IN [i \in 1..Len(df) |->
          [year |-> i,
           yearName |-> df[i].year,
           uba |-> uba[i],
           ubaGrowthPercentage |-> to_csv_cell(growth[i])]]

clean_uba(input_file, output_file) ==
    /\ Exists(input_file)
    /\ save("ok", "clean_uba", input_file, NoArg, output_file, "uba.csv", UbaHeader,
            uba_result(fs[input_file].rows))

(***************************************************************************)
(* clean_pug: the inner join of pg.csv and uba.csv on yearName.  density   *)
(* and populationUrbanGrowthRatio are in thousandths.                      *)
(***************************************************************************)
\* the columns of a merged row that keep their name: yearName and the columns
\* that only one side has (a column of both sides comes out as <name>_x and
\* <name>_y, names that nothing reads)
merged_columns(l, r) ==
    (DOMAIN l \cup DOMAIN r) \ ((DOMAIN l \cap DOMAIN r) \ {"yearName"})

\* the rows of pd.merge(l, R, on='yearName', how='inner') for one left row
JoinRows(l, R) ==
    LET m == SelectSeq(R, LAMBDA r : r.yearName = l.yearName)
    IN [j \in 1..Len(m) |->
          [c \in merged_columns(l, m[j]) |->
              IF c \in DOMAIN l THEN l[c] ELSE m[j][c]]]

\* pd.merge(pg_df, uba_df, on='yearName', how='inner'): every pair of a left
\* and a right row with the same yearName, in the order of the left rows
merge(L, R) ==
    LET F[i \in 0..Len(L)] ==
            IF i = 0 THEN <<>> ELSE F[i - 1] \o JoinRows(L[i], R)
    IN F[Len(L)]

\* the ratio computed in every row, the zero denominator included
growth_ratio_unmasked(pgGrowth, ubaGrowth) ==
    FDivRound(pgGrowth, ubaGrowth, 3)

\* mask = ubaGrowthPercentage != 0 (true for NaN); None where the mask is
\* false, (populationGrowthPercentage / ubaGrowthPercentage).round(3) elsewhere
growth_ratio(pgGrowth, ubaGrowth) ==
    IF ubaGrowth.k = "num" /\ ubaGrowth.v = 0 THEN None
    ELSE FDivRound(pgGrowth, ubaGrowth, 3)

PugHeader == <<"yearName", "population", "populationGrowthPercentage", "year",
               "uba", "ubaGrowthPercentage", "density",
               "populationUrbanGrowthRatio">>

\* density, populationUrbanGrowthRatio and the columns of expected_columns
\* that the merged table has, in the order of expected_columns
pug_result(pg_df, uba_df) ==
    LET m == merge(pg_df, uba_df)
        computed(r) ==
            [density |-> FDivRound(Num(r.population), r.uba, 5),
             populationUrbanGrowthRatio |->
                 growth_ratio(r.populationGrowthPercentage, r.ubaGrowthPercentage)]
        cell(r, c) ==
            IF c \in DOMAIN computed(r) THEN to_csv_cell(computed(r)[c])
            ELSE IF c \in {"populationGrowthPercentage", "ubaGrowthPercentage"}
            THEN to_csv_cell(r[c])
            ELSE r[c]
    IN [i \in 1..Len(m) |->
          [c \in {PugHeader[k] : k \in 1..Len(PugHeader)}
                 \cap (DOMAIN m[i] \cup DOMAIN computed(m[i])) |->
              cell(m[i], c)]]

\* the columns the computations read from the merged table
PugRequired ==
    {"population", "uba", "ubaGrowthPercentage", "populationGrowthPercentage"}

\* the path a file argument stands for: the one below data/processed when
\* the argument is None
default_path_cwd(arg, name) == IF arg = NoArg THEN Path(Cwd, name) ELSE arg

default_path(arg, name) == IF arg = NoArg THEN Path(Processed, name) ELSE arg

clean_pug(pg_arg, uba_arg, output_file) ==
    LET pg_file == default_path(pg_arg, "pg.csv")
        uba_file == default_path(uba_arg, "uba.csv")
        fail(status) ==
            /\ call' = Call("clean_pug", pg_arg, uba_arg, output_file, status, {})
            /\ UNCHANGED <<fs, dirs>>
        columns(path) == {fs[path].header[k] : k \in 1..Len(fs[path].header)}
    IN IF ~Exists(pg_file) \/ ~Exists(uba_file)
       THEN fail("FileNotFoundError")
       ELSE IF "yearName" \notin columns(pg_file) \cap columns(uba_file)
       THEN fail("KeyError")        \* pd.merge(on='yearName')
       ELSE LET pug_df == pug_result(read_csv(pg_file), read_csv(uba_file))
                plain == (columns(pg_file) \cup columns(uba_file))
                         \ ((columns(pg_file) \cap columns(uba_file)) \ {"yearName"})
            IN IF Len(merge(read_csv(pg_file), read_csv(uba_file))) = 0
               THEN fail("ValueError")
               ELSE IF ~(PugRequired \subseteq plain)
               THEN fail("KeyError")    \* pug_df['population'] and the like
               ELSE save("ok", "clean_pug", pg_arg, uba_arg, output_file, "pug.csv",
                         SelectSeq(PugHeader,
                                   LAMBDA c : c \in plain \cup {"density",
                                                  "populationUrbanGrowthRatio"}),
                         pug_df)

(***************************************************************************)
(* Strings.  Python compares str values code point by code point; the      *)
(* strings of the model are given with their code points.                  *)
(***************************************************************************)
Chars ==
    "0-1" :> <<48, 45, 49>> @@
    "1-4" :> <<49, 45, 52>> @@
    "0-4" :> <<48, 45, 52>> @@
    "5-9" :> <<53, 45, 57>> @@
    "10-14" :> <<49, 48, 45, 49, 52>> @@
    "f" :> <<102>> @@
    "m" :> <<109>> @@
    "female" :> <<102, 101, 109, 97, 108, 101>> @@
    "male" :> <<109, 97, 108, 101>> @@
    "Tree cover" :> <<84, 114, 101, 101, 32, 99, 111, 118, 101, 114>> @@
    "Built-up" :> <<66, 117, 105, 108, 116, 45, 117, 112>> @@
    "Total area" :> <<84, 111, 116, 97, 108, 32, 97, 114, 101, 97>> @@
    "total" :> <<116, 111, 116, 97, 108>> @@
    "year" :> <<121, 101, 97, 114>> @@
    "coastal_2020" :> <<99, 111, 97, 115, 116, 97, 108, 95, 50, 48, 50, 48>> @@
    "fluvial_2020" :> <<102, 108, 117, 118, 105, 97, 108, 95, 50, 48, 50, 48>> @@
    "pluvial_2020" :> <<112, 108, 117, 118, 105, 97, 108, 95, 50, 48, 50, 48>> @@
    "comb_2020" :> <<99, 111, 109, 98, 95, 50, 48, 50, 48>> @@
    "fluvial_2020_max" :>
        <<102, 108, 117, 118, 105, 97, 108, 95, 50, 48, 50, 48, 95, 109, 97,
        120>> @@
    \* the names of files and directories, and the substrings of the dispatcher
    "population-growth" :>
        <<112, 111, 112, 117, 108, 97, 116, 105, 111, 110, 45, 103, 114, 111,
        119, 116, 104>> @@
    "demographics" :>
        <<100, 101, 109, 111, 103, 114, 97, 112, 104, 105, 99, 115>> @@
    "wsft_stats" :> <<119, 115, 102, 116, 95, 115, 116, 97, 116, 115>> @@
    "wsf_stats" :> <<119, 115, 102, 95, 115, 116, 97, 116, 115>> @@
    "pug" :> <<112, 117, 103>> @@
    "monthly-pv" :> <<109, 111, 110, 116, 104, 108, 121, 45, 112, 118>> @@
    "flood" :> <<102, 108, 111, 111, 100>> @@
    "earthquake-events" :>
        <<101, 97, 114, 116, 104, 113, 117, 97, 107, 101, 45, 101, 118, 101,
        110, 116, 115>> @@
    "lc" :> <<108, 99>> @@
    "fwi" :> <<102, 119, 105>> @@
    "." :> <<46>> @@
    "out" :> <<111, 117, 116>> @@
    "data/processed" :>
        <<100, 97, 116, 97, 47, 112, 114, 111, 99, 101, 115, 115, 101, 100>>
        @@
    "/" :> <<47>> @@
    "population-growth.csv" :>
        <<112, 111, 112, 117, 108, 97, 116, 105, 111, 110, 45, 103, 114, 111,
        119, 116, 104, 46, 99, 115, 118>> @@
    "demographics.csv" :>
        <<100, 101, 109, 111, 103, 114, 97, 112, 104, 105, 99, 115, 46, 99,
        115, 118>> @@
    "wsf_stats.csv" :>
        <<119, 115, 102, 95, 115, 116, 97, 116, 115, 46, 99, 115, 118>> @@
    "lc.csv" :> <<108, 99, 46, 99, 115, 118>> @@
    "monthly-pv.csv" :>
        <<109, 111, 110, 116, 104, 108, 121, 45, 112, 118, 46, 99, 115, 118>>
        @@
    "flood_wsf.csv" :>
        <<102, 108, 111, 111, 100, 95, 119, 115, 102, 46, 99, 115, 118>> @@
    "earthquake-events.csv" :>
        <<101, 97, 114, 116, 104, 113, 117, 97, 107, 101, 45, 101, 118, 101,
        110, 116, 115, 46, 99, 115, 118>> @@
    "fwi.csv" :> <<102, 119, 105, 46, 99, 115, 118>> @@
    "pg.csv" :> <<112, 103, 46, 99, 115, 118>> @@
    "uba.csv" :> <<117, 98, 97, 46, 99, 115, 118>> @@
    "custom.csv" :> <<99, 117, 115, 116, 111, 109, 46, 99, 115, 118>> @@
    "" :> <<>> @@
    "wsft_stats.csv" :>
        <<119, 115, 102, 116, 95, 115, 116, 97, 116, 115, 46, 99, 115, 118>>
        @@
    "flood_lc.csv" :>
        <<102, 108, 111, 111, 100, 95, 108, 99, 46, 99, 115, 118>> @@
    "demographics_fwi.csv" :>
        <<100, 101, 109, 111, 103, 114, 97, 112, 104, 105, 99, 115, 95, 102,
        119, 105, 46, 99, 115, 118>> @@
    "other.csv" :> <<111, 116, 104, 101, 114, 46, 99, 115, 118>> @@
    "pug.csv" :> <<112, 117, 103, 46, 99, 115, 118>>

\* a < b for two sequences of code points (Python's str order)
RECURSIVE SeqLt(_, _)
SeqLt(a, b) ==
    IF b = <<>> THEN FALSE
    ELSE IF a = <<>> THEN TRUE
    ELSE IF a[1] # b[1] THEN a[1] < b[1]
    ELSE SeqLt(Tail(a), Tail(b))

StrLt(a, b) == SeqLt(Chars[a], Chars[b])
StrLe(a, b) == a = b \/ StrLt(a, b)

\* str.lower() on code points
Lower(s) == [i \in 1..Len(s) |-> IF s[i] \in 65..90 THEN s[i] + 32 ELSE s[i]]

\* sub in s
Contains(s, sub) ==
    \E i \in 0..(Len(s) - Len(sub)) : SubSeq(s, i + 1, i + Len(sub)) = sub

\* sorted(S) for a set S; lt[a, b] says that a < b
Sorted(S, lt) ==
    [i \in 1..Cardinality(S) |->
        CHOOSE x \in S : Cardinality({y \in S : lt[y, x]}) = i - 1]

\* the sum of f[1..n]
RECURSIVE SumTo(_, _)
SumTo(f, n) == IF n = 0 THEN 0 ELSE f[n] + SumTo(f, n - 1)

(***************************************************************************)
(* clean_pas: population by age and sex.  population is in thousandths,    *)
(* count in hundredths, percentage in units of 10^-7 percent.              *)
(***************************************************************************)
\* a replacement that leaves '1-4' as it is
replace_age_first_only(a) == IF a = "0-1" THEN "0-4" ELSE a

\* df['age_group'].replace({'0-1': '0-4', '1-4': '0-4'})
replace_age(a) == IF a \in {"0-1", "1-4"} THEN "0-4" ELSE a

\* df_grouped['sex'].replace({'f': 'female', 'm': 'male'})
replace_sex(s) == IF s = "f" THEN "female" ELSE IF s = "m" THEN "male" ELSE s

KeyLt(a, b) == StrLt(a[1], b[1]) \/ (a[1] = b[1] /\ StrLt(a[2], b[2]))

\* df.groupby(['age_group', 'sex'], as_index=False)['population'].sum():
\* one row per key, keys in sorted order
groupby_sum(df) ==
    LET present == {<<df[i].age_group, df[i].sex>> : i \in 1..Len(df)}
        keys == Sorted(present, [a \in present, b \in present |-> KeyLt(a, b)])
        pop(key) == SumTo([i \in 1..Len(df) |->
                             IF <<df[i].age_group, df[i].sex>> = key
                             THEN df[i].population ELSE 0], Len(df))
    IN [g \in 1..Len(keys) |->
          [age_group |-> keys[g][1], sex |-> keys[g][2], population |-> pop(keys[g])]]

age_order_base ==
    <<"0-4", "5-9", "10-14", "15-19", "20-24", "25-29", "30-34", "35-39",
      "40-44", "45-49", "50-54", "55-59", "60-64", "65-69", "70-74", "75-79",
      "80+", "80">>

InSeq(x, s) == \E i \in 1..Len(s) : s[i] = x

\* age_order with the brackets of the data that it lacks appended, cut down to
\* the brackets of the data
existing_categories(brackets) ==
    LET unique_brackets ==
            Sorted(brackets, [a \in brackets, b \in brackets |-> StrLt(a, b)])
        missing == SelectSeq(unique_brackets, LAMBDA b : ~InSeq(b, age_order_base))
        age_order == age_order_base \o missing
    IN SelectSeq(age_order, LAMBDA c : c \in brackets)

IndexOf(x, s) == CHOOSE i \in 1..Len(s) : s[i] = x

AlphaLe(a, b) ==
    StrLt(a.ageBracket, b.ageBracket)
    \/ (a.ageBracket = b.ageBracket /\ StrLe(a.sex, b.sex))

\* DataFrame.drop(label) with the default axis=0 looks the label up in the row
\* index, which is 0..n-1, and raises KeyError when it is not there
drop_raises(df, label) == label \notin {ToString(i - 1) : i \in 1..Len(df)}

PasHeader == <<"ageBracket", "sex", "count", "percentage", "yearName">>

pas_result(rows) ==
    LET df == [i \in 1..Len(rows) |->
                 [rows[i] EXCEPT !.age_group = replace_age(@)]]
        df_grouped == groupby_sum(df)
        total == SumTo([g \in 1..Len(df_grouped) |-> df_grouped[g].population],
                       Len(df_grouped))
        result_df == [g \in 1..Len(df_grouped) |->
                        [ageBracket |-> df_grouped[g].age_group,
                         sex |-> replace_sex(df_grouped[g].sex),
                         count |-> RoundLastDigit(Num(df_grouped[g].population)),
                         percentage |-> to_csv_cell(
                             FDivRound(Num(df_grouped[g].population), Num(total), 9)),
                         yearName |-> 2021]]
        cats == existing_categories({result_df[g].ageBracket : g \in 1..Len(result_df)})
        CatLe(a, b) ==
            IndexOf(a.ageBracket, cats) < IndexOf(b.ageBracket, cats)
            \/ (a.ageBracket = b.ageBracket /\ StrLe(a.sex, b.sex))
        by_category == sort_values(result_df,
                           [i \in 1..Len(result_df), j \in 1..Len(result_df) |->
                               CatLe(result_df[i], result_df[j])])
    IN IF drop_raises(by_category, "age_sort")
       THEN sort_values(result_df,
                [i \in 1..Len(result_df), j \in 1..Len(result_df) |->
                    AlphaLe(result_df[i], result_df[j])])      \* except: the default sorting
       ELSE by_category

clean_pas(input_file, output_file) ==
    /\ Exists(input_file)
    /\ save("ok", "clean_pas", input_file, NoArg, output_file, "pas.csv", PasHeader,
            pas_result(fs[input_file].rows))

(***************************************************************************)
(* clean_lc: land cover.  Pixel Count is an integer, percentage is in      *)
(* hundredths of a percent.                                                *)
(***************************************************************************)
\* (Pixel Count > 0) & ~str.contains('total', case=False)
lc_keep(r) == r.pixelCount > 0 /\ ~Contains(Lower(Chars[r.lcType]), Chars["total"])

PctGe(a, b) == a.percentage.v >= b.percentage.v

LcHeader == <<"lcType", "pixelCount", "pixelTotal", "percentage">>

lc_result(rows) ==
    LET df_filtered == SelectSeq(rows, lc_keep)
        total_pixels == SumTo([i \in 1..Len(df_filtered) |-> df_filtered[i].pixelCount],
                              Len(df_filtered))
        result_df == [i \in 1..Len(df_filtered) |->
                        [lcType |-> df_filtered[i].lcType,
                         pixelCount |-> df_filtered[i].pixelCount,
                         pixelTotal |-> total_pixels,
                         percentage |-> FDivRound(Num(df_filtered[i].pixelCount),
                                                  Num(total_pixels), 4)]]
    IN sort_values(result_df,
           [i \in 1..Len(result_df), j \in 1..Len(result_df) |->
               PctGe(result_df[i], result_df[j])])

\* the file is written before result_df.iloc[0] raises IndexError on an empty result
clean_lc(input_file, output_file) ==
    /\ Exists(input_file)
    /\ LET result_df == lc_result(fs[input_file].rows)
       IN save(IF Len(result_df) = 0 THEN "IndexError" ELSE "ok",
               "clean_lc", input_file, NoArg, output_file, "lc.csv", LcHeader, result_df)

(***************************************************************************)
(* clean_pv: photovoltaic potential.  max is in thousandths, maxPv in      *)
(* hundredths.                                                             *)
(***************************************************************************)
MonthNames == <<"Jan", "Feb", "Mar", "Apr", "May", "Jun",
                "Jul", "Aug", "Sep", "Oct", "Nov", "Dec">>

\* df['month'].map({1: 'Jan', ..., 12: 'Dec'}): NaN (an empty cell) for any other value
month_name(m) == IF m \in 1..12 THEN MonthNames[m] ELSE ""

MonthLe(a, b) == a.month <= b.month

PvHeader == <<"month", "monthName", "maxPv">>

pv_result(rows) ==
    LET result_df == [i \in 1..Len(rows) |->
                        [month |-> rows[i].month,
                         monthName |-> month_name(rows[i].month),
                         maxPv |-> RoundLastDigit(Num(rows[i].max))]]
    IN sort_values(result_df,
           [i \in 1..Len(result_df), j \in 1..Len(result_df) |->
               MonthLe(result_df[i], result_df[j])])

clean_pv(input_file, output_file) ==
    /\ Exists(input_file)
    /\ save("ok", "clean_pv", input_file, NoArg, output_file, "pv.csv", PvHeader,
            pv_result(fs[input_file].rows))

(***************************************************************************)
(* clean_ee: earthquake events.  BEGAN is a date <<year, month, day>>,     *)
(* distance is in tenths (written in units), eqMagnitude in hundredths     *)
(* (written in tenths).                                                    *)
(***************************************************************************)
IsLeap(y) == (y % 4 = 0 /\ y % 100 # 0) \/ y % 400 = 0

DaysIn(y, m) ==
    IF m = 2 THEN (IF IsLeap(y) THEN 29 ELSE 28)
    ELSE IF m \in {4, 6, 9, 11} THEN 30 ELSE 31

\* pd.to_datetime(BEGAN, errors='coerce').dt.year: NaN for a date that does not parse
begin_year(d) ==
    IF d[2] \in 1..12 /\ d[3] >= 1 /\ d[3] <= DaysIn(d[1], d[2]) THEN Num(d[1]) ELSE NaN

BeginYearLe(a, b) == a.begin_year <= b.begin_year

EeHeader == <<"begin_year", "distance", "eqMagnitude", "text", "line1", "line2", "line3">>

ee_result(rows) ==
    LET df == [i \in 1..Len(rows) |->
                 [begin_year |-> begin_year(rows[i].BEGAN),
                  distance |-> RoundLastDigit(Num(rows[i].distance)),
                  eqMagnitude |-> RoundLastDigit(Num(rows[i].eqMagnitude)),
                  text |-> rows[i].text,
                  line1 |-> rows[i].line1,
                  line2 |-> rows[i].line2,
                  line3 |-> rows[i].line3]]
        \* dropna(subset=['begin_year']) and astype(int)
        kept == SelectSeq(df, LAMBDA r : r.begin_year.k = "num")
        result_df == [i \in 1..Len(kept) |->
                        [kept[i] EXCEPT !.begin_year = kept[i].begin_year.v]]
    IN sort_values(result_df,
           [i \in 1..Len(result_df), j \in 1..Len(result_df) |->
               BeginYearLe(result_df[i], result_df[j])])

clean_ee(input_file, output_file) ==
    /\ Exists(input_file)
    /\ save("ok", "clean_ee", input_file, NoArg, output_file, "ee.csv", EeHeader,
            ee_result(fs[input_file].rows))

(***************************************************************************)
(* clean_fwi: fire weather index.  pctile_95 is in thousandths, fwi in     *)
(* hundredths.                                                             *)
(***************************************************************************)
get_month_name_iso(week) ==
    IF week <= 4 THEN "Jan"
    ELSE IF week <= 9 THEN "Feb"
    ELSE IF week <= 13 THEN "Mar"
    ELSE IF week <= 17 THEN "Apr"
    ELSE IF week <= 22 THEN "May"
    ELSE IF week <= 26 THEN "Jun"
    ELSE IF week <= 30 THEN "Jul"
    ELSE IF week <= 35 THEN "Aug"
    ELSE IF week <= 39 THEN "Sep"
    ELSE IF week <= 43 THEN "Oct"
    ELSE IF week <= 47 THEN "Nov"
    ELSE "Dec"

\* the thresholds 5.2, 11.2, 21.3, 38.0 and 50.0 in thousandths
VeryLowBelow == 5200
LowBelow == 11200
ModerateBelow == 21300
HighBelow == 38000
VeryHighBelow == 50000

\* the comparisons written with <=, so that a threshold value falls in the lower bucket
categorize_danger_le(fwi) ==
    IF fwi.k = "nan" THEN "Unknown"
    ELSE IF fwi.v <= VeryLowBelow THEN "Very low"
    ELSE IF fwi.v <= LowBelow THEN "Low"
    ELSE IF fwi.v <= ModerateBelow THEN "Moderate"
    ELSE IF fwi.v <= HighBelow THEN "High"
    ELSE IF fwi.v <= VeryHighBelow THEN "Very high"
    ELSE "Extreme"

categorize_danger(fwi) ==
    IF fwi.k = "nan" THEN "Unknown"
    ELSE IF fwi.v < VeryLowBelow THEN "Very low"
    ELSE IF fwi.v < LowBelow THEN "Low"
    ELSE IF fwi.v < ModerateBelow THEN "Moderate"
    ELSE IF fwi.v < HighBelow THEN "High"
    ELSE IF fwi.v < VeryHighBelow THEN "Very high"
    ELSE "Extreme"

WeekLe(a, b) == a.week <= b.week

FwiHeader == <<"week", "monthName", "fwi", "danger">>

fwi_result(rows) ==
    LET result_df == [i \in 1..Len(rows) |->
                        [week |-> rows[i].week,
                         monthName |-> get_month_name_iso(rows[i].week),
                         fwi |-> to_csv_cell(RoundLastDigit(rows[i].pctile_95)),
                         danger |-> categorize_danger(rows[i].pctile_95)]]
    IN sort_values(result_df,
           [i \in 1..Len(result_df), j \in 1..Len(result_df) |->
               WeekLe(result_df[i], result_df[j])])

\* after the write, seasonal_stats['max'].idxmax() of a column that is NaN
\* throughout returns NaN or raises ValueError, depending on the pandas version
clean_fwi(input_file, output_file) ==
    /\ Exists(input_file)
    /\ LET rows == fs[input_file].rows
           all_nan == \A i \in 1..Len(rows) : rows[i].pctile_95.k = "nan"
       IN \E status \in (IF all_nan THEN {"ok", "ValueError"} ELSE {"ok"}) :
              save(status, "clean_fwi", input_file, NoArg, output_file, "fwi.csv",
                   FwiHeader, fwi_result(rows))

(***************************************************************************)
(* clean_flood: one file per flood type found in the header.  The flood    *)
(* values are in thousandths, written in hundredths.                       *)
(***************************************************************************)
\* available_flood_types, in insertion order: a type is available when some
\* column name contains its column name
FloodTypes == <<"coastal_2020", "fluvial_2020", "pluvial_2020", "comb_2020">>

available_flood_types(header) ==
    SelectSeq(FloodTypes,
              LAMBDA t : \E i \in 1..Len(header) : Contains(Chars[header[i]], Chars[t]))

\* flood_mappings: the short name and the file name of a type
short_name(t) ==
    IF t = "fluvial_2020" THEN "fu"
    ELSE IF t = "pluvial_2020" THEN "pu"
    ELSE IF t = "coastal_2020" THEN "cu"
    ELSE "comb"

flood_filename(t) ==
    IF t = "fluvial_2020" THEN "fu.csv"
    ELSE IF t = "pluvial_2020" THEN "pu.csv"
    ELSE IF t = "coastal_2020" THEN "cu.csv"
    ELSE "comb.csv"

YearNameLe(a, b) == a.yearName <= b.yearName

\* the result_df of one flood type: year numbers the rows of the input, then the
\* rows are sorted by yearName
flood_result(rows, t) ==
    LET result_df == [i \in 1..Len(rows) |->
                        [year |-> i,
                         yearName |-> rows[i]["year"],
                         value |-> RoundLastDigit(Num(rows[i][t]))]]
    IN sort_values(result_df,
           [i \in 1..Len(result_df), j \in 1..Len(result_df) |->
               YearNameLe(result_df[i], result_df[j])])

\* the loop over available_flood_types: the state after the first n types.
\* df[column_name] raises KeyError for a type whose column is not in the
\* header; os is a local name of clean_flood that is bound only by the import
\* on the output_dir is None path, so os.path.join raises UnboundLocalError
\* when output_dir was given
flood_loop(header, rows, output_dir, n) ==
    LET avail == available_flood_types(header)
        dir == IF output_dir = NoArg THEN Processed ELSE output_dir.dir
        F[i \in 0..Len(avail)] ==
            IF i = 0 THEN [files |-> fs, status |-> "ok", written |-> {}]
            ELSE LET prev == F[i - 1]
                     t == avail[i]
                     path == Path(dir, flood_filename(t))
                 IN IF prev.status # "ok" THEN prev
                    ELSE IF ~InSeq(t, header)
                    THEN [prev EXCEPT !.status = "KeyError"]
                    ELSE IF output_dir # NoArg
                    THEN [prev EXCEPT !.status = "UnboundLocalError"]
                    ELSE [files |-> Write(prev.files, path,
                                          File(<<"year", "yearName", short_name(t)>>,
                                               flood_result(rows, t))),
                          status |-> "ok",
                          written |-> prev.written \cup {path}]
    IN F[n]

clean_flood(input_file, output_dir) ==
    /\ Exists(input_file)
    /\ LET header == fs[input_file].header
           end == flood_loop(header, fs[input_file].rows, output_dir,
                             Len(available_flood_types(header)))
       IN /\ dirs' = IF output_dir = NoArg THEN dirs \cup {Processed} ELSE dirs
          /\ fs' = end.files
          /\ call' = Call("clean_flood", input_file, NoArg, output_dir,
                          end.status, end.written)

(***************************************************************************)
(* The command line: python clean.py input_file [output_file].  argv is    *)
(* sys.argv[1:], a sequence of at most two paths.                          *)
(***************************************************************************)
\* the string of a path as it is typed on the command line
path_str(p) ==
    IF p.dir = Cwd THEN Chars[p.name]
    ELSE Chars[p.dir] \o Chars["/"] \o Chars[p.name]

\* sub in input_file
in_name(sub, input_file) == Contains(path_str(input_file), Chars[sub])

\* the message and sys.exit(1): no function is called
exit_1(input_file, output_file) ==
    /\ call' = Call("__main__", input_file, NoArg, output_file, "SystemExit", {})
    /\ UNCHANGED <<fs, dirs>>

\* the chain of tests on input_file: the first substring found selects the
\* function, which is called with (input_file, output_file) positionally
main(argv) ==
    LET input_file == IF Len(argv) > 0 THEN argv[1] ELSE NoArg
        output_file == IF Len(argv) > 1 THEN argv[2] ELSE NoArg
    IN IF Len(argv) < 1
       THEN exit_1(NoArg, NoArg)
       ELSE IF in_name("population-growth", input_file)
       THEN clean_pg(input_file, output_file)
       ELSE IF in_name("demographics", input_file)
       THEN clean_pas(input_file, output_file)
       ELSE IF in_name("wsft_stats", input_file)
       THEN clean_uba(input_file, output_file)
       ELSE IF in_name("pug", input_file)
       THEN clean_pug(input_file, output_file, NoArg)
       ELSE IF in_name("monthly-pv", input_file)
       THEN clean_pv(input_file, output_file)
       ELSE IF in_name("flood", input_file)
       THEN clean_flood(input_file, output_file)
       ELSE IF in_name("earthquake-events", input_file)
       THEN clean_ee(input_file, output_file)
       ELSE IF in_name("lc", input_file)
       THEN clean_lc(input_file, output_file)
       ELSE IF in_name("fwi", input_file)
       THEN clean_fwi(input_file, output_file)
       ELSE exit_1(input_file, output_file)

\* an invocation that returns is added to the invocations that have returned
Returned ==
    completed' = IF call'.status = "ok"
                 THEN completed \cup {[fn |-> call'.fn, arg |-> call'.arg]}
                 ELSE completed

\* a call of a function of the module by a program that imports it
Invoke(A) == A /\ run' = [main |-> FALSE, argv |-> <<>>] /\ Returned

\* a run of the script
Script(argv) == main(argv) /\ run' = [main |-> TRUE, argv |-> argv] /\ Returned

(***************************************************************************)
(* The files of the model and the inputs the invocations are run on.       *)
(***************************************************************************)
PgRaw == Path(Cwd, "population-growth.csv")
PasRaw == Path(Cwd, "demographics.csv")
UbaRaw == Path(Cwd, "wsf_stats.csv")
LcRaw == Path(Cwd, "lc.csv")
PvRaw == Path(Cwd, "monthly-pv.csv")
FloodRaw == Path(Cwd, "flood_wsf.csv")
EeRaw == Path(Cwd, "earthquake-events.csv")
FwiRaw == Path(Cwd, "fwi.csv")
PgCsv == Path(Cwd, "pg.csv")          \* explicit pg_file / uba_file of clean_pug
UbaCsv == Path(Cwd, "uba.csv")
Custom == Path(OutDir, "custom.csv")  \* an explicit output_file
\* files that are given to the script
WsftRaw == Path(Cwd, "wsft_stats.csv")
FloodLc == Path(Cwd, "flood_lc.csv")
PasFwi == Path(Cwd, "demographics_fwi.csv")
PugDir == "pug"                       \* a directory for a pg.csv and a uba.csv
PugDirPg == Path(PugDir, "pg.csv")
PugDirUba == Path(PugDir, "uba.csv")
Other == Path(Cwd, "other.csv")       \* a name without any of the substrings
CustomDir == Path(OutDir, "")         \* an explicit output_dir

OutArgs == {NoArg, Custom}
DirArgs == {NoArg, CustomDir}

\* the tables of 1..n rows drawn from R
Tables(R, n) == UNION {[1..k -> R] : k \in 1..n}

Years == {2018, 2019, 2020}

PgRows == [Year : Years, Population : {100000, 105000, 110250}]
\* 'cumulative sq km' 10.004, 10.005 (both round to 10.0) and 12.5
UbaRows == [year : Years, sqkm : {10004, 10005, 12500}]
\* populations 1.004 and 2.0
PasRows == [age_group : {"0-1", "1-4", "0-4", "5-9", "10-14"},
            sex : {"f", "m", "female"}, population : {1004, 2000}]
LcRows == [lcType : {"Tree cover", "Built-up", "Total area"}, pixelCount : {0, 1, 2}]
PvRows == [month : {1, 6, 12, 13}, max : {1234, 1235}]
EeRows == [BEGAN : {<<2010, 5, 12>>, <<1999, 2, 29>>, <<2000, 2, 29>>},
           distance : {125}, eqMagnitude : {645, 650},
           text : {"M 6.5"}, line1 : {"a"}, line2 : {"b"}, line3 : {"c"}]
\* pctile_95 missing, 5.196, and each threshold with the value just below it
FwiRows == [week : {5, 53},
            pctile_95 : {NaN, Num(5196)} \cup
                        {Num(t - d) : t \in {VeryLowBelow, LowBelow, ModerateBelow,
                                             HighBelow, VeryHighBelow},
                                      d \in {0, 1}}]
FloodRows == [year : {1985, 2000}, v : {1234, 1235}]
\* the flood columns a header may have besides year
FloodColumns == <<"coastal_2020", "fluvial_2020", "pluvial_2020", "comb_2020",
                  "fluvial_2020_max">>

\* a pg.csv / uba.csv handed to clean_pug directly, rows in any order
PugYears == {2018, 2019}
PgCsvRows == [yearName : PugYears, population : {100000},
              populationGrowthPercentage : {Empty, Num(5000)}]
UbaCsvRows == [year : {1}, yearName : PugYears, uba : {Num(1000)},
               ubaGrowthPercentage : {Empty, Num(0), Num(-2500)}]

\* the raw inputs of the runs that build pg.csv, uba.csv and then pug.csv
ChainPg == {<<[Year |-> 2018, Population |-> 100000],
              [Year |-> 2019, Population |-> 105000],
              [Year |-> 2020, Population |-> 110250]>>,
            <<[Year |-> 2019, Population |-> 105000],
              [Year |-> 2018, Population |-> 100000]>>}
ChainUba == {<<[year |-> 2018, sqkm |-> 10004],
               [year |-> 2019, sqkm |-> 10005],
               [year |-> 2020, sqkm |-> 12500]>>,
             <<[year |-> 2021, sqkm |-> 12500]>>}

PgRawHeader == <<"Year", "Population">>
UbaRawHeader == <<"year", "cumulative sq km">>

\* the file system holds one input file with a table of rows drawn from R
OneInput(path, header, R, n) ==
    \E t \in Tables(R, n) : fs = (path :> File(header, t))

FloodInput(path, n) ==
    \E S \in SUBSET {FloodColumns[i] : i \in 1..Len(FloodColumns)},
       t \in Tables(FloodRows, n) :
        fs = (path :>
                File(<<"year">> \o SelectSeq(FloodColumns, LAMBDA c : c \in S),
                     [i \in 1..Len(t) |->
                        [c \in {"year"} \cup S |->
                            IF c = "year" THEN t[i].year ELSE t[i].v]]))

InitFlood == FloodInput(FloodRaw, MaxSmallRows)

\* the files that are only run through the script
InitMain ==
    \/ OneInput(WsftRaw, UbaRawHeader, UbaRows, MaxMainRows)
    \/ OneInput(PasFwi, <<"age_group", "sex", "population">>, PasRows, MaxMainRows)
    \/ FloodInput(FloodLc, MaxMainRows)
    \/ \E p \in Tables(PgCsvRows, MaxMainRows), u \in Tables(UbaCsvRows, MaxMainRows) :
           fs = (PugDirPg :> File(PgHeader, p) @@ PugDirUba :> File(UbaHeader, u))

InitPug ==
    \E p \in Tables(PgCsvRows, MaxSmallRows), u \in Tables(UbaCsvRows, MaxSmallRows) :
        fs = (PgCsv :> File(PgHeader, p) @@ UbaCsv :> File(UbaHeader, u))

InitChain ==
    \E p \in ChainPg, u \in ChainUba :
        fs = (PgRaw :> File(PgRawHeader, p) @@ UbaRaw :> File(UbaRawHeader, u))

\* nothing has run: the working directory, a directory for explicit outputs
\* and pug/ exist, data/processed does not
Start ==
    /\ dirs = {Cwd, OutDir, PugDir}
    /\ call = Call("none", NoArg, NoArg, NoArg, "none", {})
    /\ run = [main |-> FALSE, argv |-> <<>>]
    /\ completed = {}

Init ==
    /\ Start
    /\ \/ OneInput(PgRaw, PgRawHeader, PgRows, MaxRows)
       \/ OneInput(UbaRaw, UbaRawHeader, UbaRows, MaxRows)
       \/ OneInput(PasRaw, <<"age_group", "sex", "population">>, PasRows, MaxPasRows)
       \/ OneInput(LcRaw, <<"Land Cover Type", "Pixel Count">>, LcRows, MaxSmallRows)
       \/ OneInput(PvRaw, <<"month", "max">>, PvRows, MaxSmallRows)
       \/ OneInput(EeRaw, <<"BEGAN", "distance", "eqMagnitude", "text",
                            "line1", "line2", "line3">>, EeRows, MaxSmallRows)
       \/ OneInput(FwiRaw, <<"week", "pctile_95">>, FwiRows, MaxSmallRows)
       \/ InitFlood
       \/ InitPug
       \/ InitChain
       \/ InitMain

\* the invocations explored: a transform is run on the input file of its kind;
\* clean_pug is run with its default paths in a directory that holds an input of
\* the growth pipeline, and with explicit paths on files that exist
PugArgs ==
    {a \in {<<NoArg, NoArg>>} : Exists(PgRaw) \/ Exists(UbaRaw)}
    \cup {a \in {<<PgCsv, UbaCsv>>} : Exists(PgCsv) /\ Exists(UbaCsv)}

\* the command lines explored: no argument, an input file, an input file and a
\* second argument; the input file is one that exists, or other.csv
RawInputs ==
    {PgRaw, PasRaw, UbaRaw, LcRaw, PvRaw, FloodRaw, EeRaw, FwiRaw,
     WsftRaw, FloodLc, PasFwi, PugDirPg}
MainInputs == (RawInputs \cap DOMAIN fs) \cup {Other}
MainArgv ==
    {<<>>} \cup {<<i>> : i \in MainInputs}
    \cup {<<i, Custom>> : i \in MainInputs}
    \cup {<<i, PugDirUba>> : i \in MainInputs \cap {PugDirPg}}

Next ==
    \/ \E o \in OutArgs : Invoke(clean_pg(PgRaw, o))
    \/ \E o \in OutArgs : Invoke(clean_pas(PasRaw, o))
    \/ \E o \in OutArgs : Invoke(clean_uba(UbaRaw, o))
    \/ \E o \in OutArgs : Invoke(clean_lc(LcRaw, o))
    \/ \E a \in PugArgs, o \in OutArgs : Invoke(clean_pug(a[1], a[2], o))
    \/ \E o \in OutArgs : Invoke(clean_pv(PvRaw, o))
    \/ \E d \in DirArgs : Invoke(clean_flood(FloodRaw, d))
    \/ \E o \in OutArgs : Invoke(clean_ee(EeRaw, o))
    \/ \E o \in OutArgs : Invoke(clean_fwi(FwiRaw, o))
    \/ \E argv \in MainArgv : Script(argv)

Spec == Init /\ [][Next]_vars

(***************************************************************************)
(* One specification per transform, for the properties of that transform.  *)
(***************************************************************************)
InitOne(path, header, R, n) ==
    /\ Start
    /\ OneInput(path, header, R, n)

NextPg == \E o \in OutArgs : Invoke(clean_pg(PgRaw, o))
SpecPg == InitOne(PgRaw, PgRawHeader, PgRows, MaxRows) /\ [][NextPg]_vars

NextPas == \E o \in OutArgs : Invoke(clean_pas(PasRaw, o))
SpecPas ==
    InitOne(PasRaw, <<"age_group", "sex", "population">>, PasRows, MaxPasRows)
    /\ [][NextPas]_vars

NextFwi == \E o \in OutArgs : Invoke(clean_fwi(FwiRaw, o))
SpecFwi ==
    InitOne(FwiRaw, <<"week", "pctile_95">>, FwiRows, MaxSmallRows)
    /\ [][NextFwi]_vars

NextPug ==
    \/ \E o \in OutArgs : Invoke(clean_pg(PgRaw, o))
    \/ \E o \in OutArgs : Invoke(clean_uba(UbaRaw, o))
    \/ \E a \in PugArgs, o \in OutArgs : Invoke(clean_pug(a[1], a[2], o))
InitGrowth == Start /\ (InitPug \/ InitChain)
SpecPug == InitGrowth /\ [][NextPug]_vars

\* The build order of pug.csv: population-growth.csv and wsf_stats.csv are
\* there, data/processed is empty or missing, and the working directory may
\* hold a pg.csv and a uba.csv of its own.  clean_pg and clean_uba are run with
\* the default output or with an explicit path below data/processed
ProcessedPg == Path(Processed, "pg.csv")
ProcessedUba == Path(Processed, "uba.csv")
ProcessedPug == Path(Processed, "pug.csv")
BuildOut == {NoArg, ProcessedPg, ProcessedUba}
BuildPgCsv ==
    File(PgHeader, <<[yearName |-> 2018, population |-> 100000,
                      populationGrowthPercentage |-> Empty]>>)
BuildUbaCsv ==
    File(UbaHeader, <<[year |-> 1, yearName |-> 2018, uba |-> Num(1000),
                       ubaGrowthPercentage |-> Empty]>>)

InitBuild ==
    /\ dirs \in {{Cwd, OutDir, PugDir}, {Cwd, OutDir, PugDir, Processed}}
    /\ call = Call("none", NoArg, NoArg, NoArg, "none", {})
    /\ run = [main |-> FALSE, argv |-> <<>>]
    /\ completed = {}
    /\ \E p \in ChainPg, u \in ChainUba, S \in SUBSET {PgCsv, UbaCsv} :
           fs = [q \in {PgRaw, UbaRaw} \cup S |->
                    IF q = PgRaw THEN File(PgRawHeader, p)
                    ELSE IF q = UbaRaw THEN File(UbaRawHeader, u)
                    ELSE IF q = PgCsv THEN BuildPgCsv
                    ELSE BuildUbaCsv]

NextBuild ==
    \/ \E o \in BuildOut : Invoke(clean_pg(PgRaw, o))
    \/ \E o \in BuildOut : Invoke(clean_uba(UbaRaw, o))
    \/ \E a \in {<<NoArg, NoArg>>, <<PgCsv, UbaCsv>>}, o \in OutArgs :
           Invoke(clean_pug(a[1], a[2], o))

SpecBuild == InitBuild /\ [][NextBuild]_vars

(***************************************************************************)
(* Properties.                                                             *)
(***************************************************************************)
Ran(fn) == call.fn = fn /\ call.status = "ok"
\* the rows of the file the last invocation wrote
Out == fs[CHOOSE p \in call.written : TRUE].rows
\* the number of TRUE entries of the sequence b
Count(b) == Cardinality({i \in 1..Len(b) : b[i]})

\* C1: clean_pg writes the rows of the input in ascending Year order; the first
\* row's populationGrowthPercentage is empty and every later row's is
\* (pop[i] - pop[i-1]) / pop[i-1] * 100 to the nearest thousandth, pop[i-1]
\* being the population of the row written before it
C1_PgGrowth ==
    Ran("clean_pg") =>
        LET in == fs[PgRaw].rows
            out == Out
        IN /\ Len(out) = Len(in)
           /\ \A r \in PgRows :
                  Count([i \in 1..Len(in) |-> in[i] = r])
                  = Count([i \in 1..Len(out) |-> out[i].yearName = r.Year
                                                 /\ out[i].population = r.Population])
           /\ \A i \in 1..(Len(out) - 1) : out[i].yearName <= out[i + 1].yearName
           /\ out[1].populationGrowthPercentage = Empty
           /\ \A i \in 2..Len(out) :
                  LET g == out[i].populationGrowthPercentage
                      prev == out[i - 1].population
                      diff == out[i].population - prev
                  IN /\ g.k = "num"
                     /\ 2 * Abs(g.v * prev - diff * 100000) <= prev

\* the example of the specification, given out of order: NA, 5.0, 5.0
C1_Witness ==
    /\ Ran("clean_pg")
    /\ fs[PgRaw].rows = <<[Year |-> 2020, Population |-> 110250],
                          [Year |-> 2018, Population |-> 100000],
                          [Year |-> 2019, Population |-> 105000]>>
    /\ Out = <<[yearName |-> 2018, population |-> 100000,
                populationGrowthPercentage |-> Empty],
               [yearName |-> 2019, population |-> 105000,
                populationGrowthPercentage |-> Num(5000)],
               [yearName |-> 2020, population |-> 110250,
                populationGrowthPercentage |-> Num(5000)]>>

\* the input rows of sex value s that clean_pas merges into the bracket 0-4
Merged(r, s) == r.sex = s /\ r.age_group \in {"0-1", "1-4", "0-4"}
\* the sex values of the input that have a 0-1 row and a 1-4 row
BothYoung(in) ==
    {s \in {in[i].sex : i \in 1..Len(in)} :
        /\ \E i \in 1..Len(in) : in[i].sex = s /\ in[i].age_group = "0-1"
        /\ \E i \in 1..Len(in) : in[i].sex = s /\ in[i].age_group = "1-4"}
\* the sum of the populations (thousandths) of the rows that Merged selects
MergedSum(in, s) ==
    SumTo([i \in 1..Len(in) |-> IF Merged(in[i], s) THEN in[i].population ELSE 0],
          Len(in))
\* c hundredths is t thousandths rounded to 2 decimals (half to even)
IsRound2(c, t) ==
    \/ Abs(10 * c - t) < 5
    \/ (Abs(10 * c - t) = 5 /\ c % 2 = 0)

\* C2 as stated: with a 0-1 row and a 1-4 row of a sex in the input, the output
\* has exactly one 0-4 row of that sex, its count is the sum of the populations of
\* the 0-1, 1-4 and 0-4 rows of that sex, and no output row is 0-1 or 1-4
C2_Original ==
    Ran("clean_pas") =>
        LET in == fs[PasRaw].rows
            out == Out
        IN /\ \A g \in 1..Len(out) : out[g].ageBracket \notin {"0-1", "1-4"}
           /\ \A s \in BothYoung(in) :
                  /\ Count([g \in 1..Len(out) |->
                               out[g].ageBracket = "0-4"
                               /\ out[g].sex = replace_sex(s)]) = 1
                  /\ \A g \in 1..Len(out) :
                         (out[g].ageBracket = "0-4" /\ out[g].sex = replace_sex(s))
                         => 10 * out[g].count.v = MergedSum(in, s)

\* C2 as amended: with a 0-1 row and a 1-4 row of a sex value in the input, the
\* output has a 0-4 row for that sex value whose count is the sum of the
\* populations of its 0-1, 1-4 and 0-4 rows rounded to 2 decimals; the output
\* has one 0-4 row per sex value of the input that has such rows (f and female
\* are two values, both written female); no output row is 0-1 or 1-4
C2_MergedBracket ==
    Ran("clean_pas") =>
        LET in == fs[PasRaw].rows
            out == Out
            written == {replace_sex(in[i].sex) : i \in 1..Len(in)}
        IN /\ \A g \in 1..Len(out) : out[g].ageBracket \notin {"0-1", "1-4"}
           /\ \A s \in BothYoung(in) :
                  \E g \in 1..Len(out) :
                      /\ out[g].ageBracket = "0-4"
                      /\ out[g].sex = replace_sex(s)
                      /\ out[g].count.k = "num"
                      /\ IsRound2(out[g].count.v, MergedSum(in, s))
           /\ \A w \in written :
                  Count([g \in 1..Len(out) |->
                            out[g].ageBracket = "0-4" /\ out[g].sex = w])
                  = Cardinality({in[i].sex : i \in
                        {j \in 1..Len(in) : replace_sex(in[j].sex) = w
                                            /\ Merged(in[j], in[j].sex)}})

\* a 0-1 row of 1.004 and a 1-4 row of 2.0 of sex f give one row 0-4, female, 3.0
C2_Witness ==
    /\ Ran("clean_pas")
    /\ fs[PasRaw].rows = <<[age_group |-> "1-4", sex |-> "f", population |-> 2000],
                           [age_group |-> "0-1", sex |-> "f", population |-> 1004]>>
    /\ Len(Out) = 1
    /\ Out[1].ageBracket = "0-4" /\ Out[1].sex = "female" /\ Out[1].count = Num(300)

\* the rank of a bracket in the canonical list 0-4, 5-9, ..., 75-79, 80+; a
\* bracket that is not in the list ranks after all of it
CanonicalBrackets == SubSeq(age_order_base, 1, 17)
BracketRank(b) ==
    IF InSeq(b, CanonicalBrackets) THEN IndexOf(b, CanonicalBrackets)
    ELSE Len(CanonicalBrackets) + 1

\* C3: clean_pas writes its rows in the order of the canonical bracket list,
\* other brackets after the canonical ones, and by sex within one bracket
C3_CanonicalOrder ==
    Ran("clean_pas") =>
        \A i \in 1..(Len(Out) - 1) :
            \/ BracketRank(Out[i].ageBracket) < BracketRank(Out[i + 1].ageBracket)
            \/ /\ BracketRank(Out[i].ageBracket) = BracketRank(Out[i + 1].ageBracket)
               /\ (Out[i].ageBracket = Out[i + 1].ageBracket
                   => StrLe(Out[i].sex, Out[i + 1].sex))

\* the pg.csv and uba.csv that the last clean_pug read
PugPgFile == IF call.input = NoArg THEN Path(Processed, "pg.csv") ELSE call.input
PugUbaFile == IF call.input2 = NoArg THEN Path(Processed, "uba.csv") ELSE call.input2
YearNames(rows) == {rows[i].yearName : i \in 1..Len(rows)}

\* C4: clean_pug writes as many rows as there are distinct yearName values that
\* occur in both of its inputs
C4_RowPerCommonYear ==
    Ran("clean_pug") =>
        Len(Out) = Cardinality(YearNames(fs[PugPgFile].rows)
                               \cap YearNames(fs[PugUbaFile].rows))

\* C5 as stated: in every row clean_pug writes, populationUrbanGrowthRatio is
\* empty exactly when ubaGrowthPercentage is 0, and in every other row it is a
\* number
C5_Original ==
    Ran("clean_pug") =>
        \A i \in 1..Len(Out) :
            (Out[i].populationUrbanGrowthRatio = Empty)
            <=> (Out[i].ubaGrowthPercentage = Num(0))

\* C5 as amended: in every row clean_pug writes whose two growth percentages are
\* each a finite number or empty, populationUrbanGrowthRatio is
\* empty exactly when ubaGrowthPercentage is 0 or one of the two growth
\* percentages is empty; in every other row it is populationGrowthPercentage /
\* ubaGrowthPercentage to the nearest thousandth
C5_GrowthRatio ==
    Ran("clean_pug") =>
        \A i \in 1..Len(Out) :
            LET p == Out[i].populationGrowthPercentage
                u == Out[i].ubaGrowthPercentage
                r == Out[i].populationUrbanGrowthRatio
            IN {p.k, u.k} \subseteq {"num", "empty"} =>
                   /\ (r = Empty) <=> (u = Num(0) \/ u = Empty \/ p = Empty)
                   /\ r # Empty =>
                          /\ r.k = "num"
                          /\ 2 * Abs(r.v * u.v - p.v * 1000) <= Abs(u.v)

\* a written row with a ratio, one whose uba growth is 0 and one of a first period
C5_Witness ==
    /\ Ran("clean_pug")
    /\ \E i \in 1..Len(Out) :
           /\ Out[i].populationGrowthPercentage = Num(5000)
           /\ Out[i].ubaGrowthPercentage = Num(25000)
           /\ Out[i].populationUrbanGrowthRatio = Num(200)
    /\ \E i \in 1..Len(Out) :
           /\ Out[i].ubaGrowthPercentage = Num(0)
           /\ Out[i].populationUrbanGrowthRatio = Empty
    /\ \E i \in 1..Len(Out) :
           /\ Out[i].ubaGrowthPercentage = Empty
           /\ Out[i].populationUrbanGrowthRatio = Empty

\* the seven labels, each with the values it stands for: [lo, hi) in thousandths
DangerLabels == {"Unknown", "Very low", "Low", "Moderate", "High", "Very high",
                 "Extreme"}
InBucket(x, d) ==
    IF x.k # "num" THEN d = "Unknown"
    ELSE \/ d = "Very low" /\ x.v < 5200
         \/ d = "Low" /\ 5200 <= x.v /\ x.v < 11200
         \/ d = "Moderate" /\ 11200 <= x.v /\ x.v < 21300
         \/ d = "High" /\ 21300 <= x.v /\ x.v < 38000
         \/ d = "Very high" /\ 38000 <= x.v /\ x.v < 50000
         \/ d = "Extreme" /\ 50000 <= x.v

C7_FloodFiles ==
    (call.fn = "clean_flood" /\ call.arg = NoArg) =>
        LET header == fs[call.input].header
        IN /\ call.status = "ok"
           /\ call.written = {Path(Processed, flood_filename(FloodTypes[i])) :
                                 i \in {j \in 1..Len(FloodTypes) :
                                           InSeq(FloodTypes[j], header)}}

\* the input tables of the last invocation
Inputs ==
    IF call.fn = "clean_pug" THEN {fs[PugPgFile].rows, fs[PugUbaFile].rows}
    ELSE {fs[call.input].rows}

\* C8: no transform writes more rows than its input table has (clean_pug: than
\* either of its two input tables has)
C8_NoFabricatedRows ==
    call.written # {} =>
        \A p \in call.written : \A in \in Inputs : Len(fs[p].rows) <= Len(in)

\* the keys are in ascending order
Ascending(keys) == \A i \in 1..(Len(keys) - 1) : keys[i] <= keys[i + 1]

\* C9: every transform writes its rows sorted by the natural key
C9_SortedOutput ==
    \A p \in call.written :
        LET rows == fs[p].rows
        IN CASE call.fn \in {"clean_pg", "clean_uba", "clean_pug", "clean_flood"} ->
                    Ascending([i \in 1..Len(rows) |-> rows[i].yearName])
             [] call.fn = "clean_pv" -> Ascending([i \in 1..Len(rows) |-> rows[i].month])
             [] call.fn = "clean_fwi" -> Ascending([i \in 1..Len(rows) |-> rows[i].week])
             [] call.fn = "clean_ee" -> Ascending([i \in 1..Len(rows) |-> rows[i].begin_year])
             [] call.fn = "clean_lc" -> Ascending([i \in 1..Len(rows) |-> 0 - rows[i].percentage.v])
             [] OTHER -> TRUE

\* the flood types whose very column is in the header
available_exact(header) == SelectSeq(FloodTypes, LAMBDA t : InSeq(t, header))

\* the input of the last invocation is one the transform is meant for: the
\* files exist, the columns a name in the header announces are there, and the
\* result is not empty
ValidInput ==
    CASE call.fn = "clean_pug" ->
             /\ Exists(PugPgFile) /\ Exists(PugUbaFile)
             /\ YearNames(fs[PugPgFile].rows) \cap YearNames(fs[PugUbaFile].rows) # {}
      [] call.fn = "clean_flood" ->
             /\ available_flood_types(fs[call.input].header) # <<>>
             /\ available_flood_types(fs[call.input].header)
                = available_exact(fs[call.input].header)
      [] call.fn = "clean_lc" ->
             \E i \in 1..Len(fs[call.input].rows) : lc_keep(fs[call.input].rows[i])
      [] call.fn = "clean_fwi" ->
             \E i \in 1..Len(fs[call.input].rows) :
                 fs[call.input].rows[i].pctile_95.k = "num"
      [] OTHER -> call.fn \notin {"none", "__main__"}

\* C10: on a valid input every transform ends without an error and writes at
\* the location it was given (clean_flood: in the directory it was given), or
\* under data/processed when it was given none
C10_OutputLocation ==
    ValidInput =>
        /\ call.status = "ok"
        /\ call.written # {}
        /\ \A p \in call.written :
               IF call.arg = NoArg THEN p.dir = Processed
               ELSE IF call.fn = "clean_flood" THEN p.dir = call.arg.dir
               ELSE p = call.arg

(***************************************************************************)
(* The script.                                                             *)
(***************************************************************************)
\* the last invocation was a run of the script on an input file
RanScript == run.main /\ Len(run.argv) > 0
\* the second argument of the command line, NoArg when there is none
SecondArg == IF Len(run.argv) > 1 THEN run.argv[2] ELSE NoArg
\* the script stopped with the selection message: exit status 1, nothing called
SelectionError ==
    call.fn = "__main__" /\ call.status = "SystemExit" /\ call.written = {}

\* the substrings the script looks for
Selectors ==
    {"population-growth", "demographics", "wsft_stats", "pug", "monthly-pv",
     "flood", "earthquake-events", "lc", "fwi"}
\* the substrings the message of the script and the docstrings name, each with
\* the function it stands for
Named ==
    [fn : {"clean_pg"}, sub : {"population-growth"}]
    \cup [fn : {"clean_pas"}, sub : {"demographics"}]
    \cup [fn : {"clean_uba"}, sub : {"wsf_stats"}]
    \cup [fn : {"clean_lc"}, sub : {"lc"}]
    \cup [fn : {"clean_pug"}, sub : {"pug"}]
    \cup [fn : {"clean_pv"}, sub : {"monthly-pv"}]
    \cup [fn : {"clean_flood"}, sub : {"flood"}]
    \cup [fn : {"clean_ee"}, sub : {"earthquake-events"}]
    \cup [fn : {"clean_fwi"}, sub : {"fwi"}]
\* the substrings of S found in the input file of the command line
Found(S) == {sub \in S : Contains(path_str(run.argv[1]), Chars[sub])}

\* C11: a run of the script on an input path that holds none of the substrings
\* the script looks for, or the substrings of more than one function, ends
\* with the selection error: exit status 1, no function called, nothing written
C11_SelectionError ==
    (RanScript /\ Cardinality(Found(Selectors)) # 1) => SelectionError

\* C12: whatever function the script calls, it is called with the first
\* argument of the command line as its input and the second as its output
\* location; the second argument is never a second input file
C12_ArgumentRoles ==
    (RanScript /\ call.fn # "__main__") =>
        /\ call.input = run.argv[1]
        /\ call.arg = SecondArg
        /\ call.input2 = NoArg

\* C14: an input path that holds exactly one of the substrings the message of
\* the script names is given to the function that substring stands for; so
\* wsf_stats.csv is given to clean_uba
C14_Reachability ==
    RanScript =>
        \A n \in Named :
            Found({m.sub : m \in Named}) = {n.sub} => call.fn = n.fn

(***************************************************************************)
(* The written tables.                                                     *)
(***************************************************************************)
\* C15: in every file written by clean_uba or clean_flood the year column
\* numbers the rows as they are written: the k-th row has year = k
C15_SequentialYear ==
    (call.fn \in {"clean_uba", "clean_flood"}) =>
        \A p \in call.written :
            \A k \in 1..Len(fs[p].rows) : fs[p].rows[k].year = k

\* the written fwi (hundredths) as an index value (thousandths)
WrittenFwi(c) == IF c.k = "num" THEN Num(c.v * 10) ELSE c

\* C16: in every row clean_fwi writes, danger is the label of the bucket that
\* holds the fwi value written in that row
C16_DangerOfWrittenFwi ==
    (call.fn = "clean_fwi" /\ call.written # {}) =>
        \A k \in 1..Len(Out) : InBucket(WrittenFwi(Out[k].fwi), Out[k].danger)

(***************************************************************************)
(* The build order of pug.csv.                                             *)
(***************************************************************************)
\* this step is a call of clean_pug with the default pg_file and uba_file
PugDefaultStep ==
    /\ call'.fn = "clean_pug" /\ call'.input = NoArg /\ call'.input2 = NoArg
    /\ run' = [main |-> FALSE, argv |-> <<>>]
\* an invocation of fn with the default output path has returned
CompletedDefault(fn) == [fn |-> fn, arg |-> NoArg] \in completed
\* the file an invocation writes when it is given no output path
DefaultOutput(fn) ==
    Path(Processed, IF fn = "clean_pg" THEN "pg.csv"
                    ELSE IF fn = "clean_uba" THEN "uba.csv"
                    ELSE "pug.csv")
\* an invocation that writes the file at path has returned: one given the path
\* as its output, or one whose default output the path is
WrittenBefore(path) ==
    \E c \in completed :
        c.arg = path \/ (c.arg = NoArg /\ DefaultOutput(c.fn) = path)

\* C13 as stated: clean_pug with the default paths succeeds only after a
\* clean_pg and a clean_uba invocation with the default output path have
\* returned, and otherwise it fails with FileNotFoundError and
\* data/processed/pug.csv is not created
C13_Original ==
    [][PugDefaultStep =>
        IF CompletedDefault("clean_pg") /\ CompletedDefault("clean_uba")
        THEN TRUE
        ELSE /\ call'.status = "FileNotFoundError"
             /\ (~Exists(ProcessedPug) => ProcessedPug \notin DOMAIN fs')]_vars

\* C13: clean_pug with the default paths succeeds only if data/processed/pg.csv
\* and data/processed/uba.csv exist, each written by an invocation that has
\* returned before (with that file as its default or as its explicit output);
\* when one of the two files does not exist it fails with FileNotFoundError
\* and writes nothing
C13_BuildOrder ==
    [][PugDefaultStep =>
        /\ call'.status = "ok" =>
               /\ Exists(ProcessedPg) /\ Exists(ProcessedUba)
               /\ WrittenBefore(ProcessedPg) /\ WrittenBefore(ProcessedUba)
        /\ ~(Exists(ProcessedPg) /\ Exists(ProcessedUba)) =>
               /\ call'.status = "FileNotFoundError"
               /\ call'.written = {}
               /\ fs' = fs]_vars

\* clean_pug with the default paths has written data/processed/pug.csv after
\* clean_pg and clean_uba, the second of them with an explicit output path
C13_Witness ==
    /\ Ran("clean_pug") /\ call.input = NoArg /\ call.input2 = NoArg
    /\ call.written = {ProcessedPug}
    /\ completed = {[fn |-> "clean_pg", arg |-> NoArg],
                    [fn |-> "clean_uba", arg |-> ProcessedUba],
                    [fn |-> "clean_pug", arg |-> NoArg]}

====
